---- MODULE Spec2Model ----
(***************************************************************************)
(* Visualizer: the screenshot manager (capture_and_save, the capture       *)
(* functions), the capture scheduler of the main window (QTimer driven     *)
(* capture_screenshot, start_capturing, stop_capturing), its Settings tab  *)
(* (apply_settings), the routes of the Flask server and the entry points.  *)
(* The repository holds two implementations: src/app.py (impl = "app")     *)
(* and the package src/src/ (impl = "src").  Both are modelled; impl       *)
(* selects one.                                                            *)
(***************************************************************************)
EXTENDS Integers, Sequences, FiniteSets, TLC

VARIABLES
    impl,               \* which implementation runs: "app" or "src"
    reuse_same_image,   \* ScreenshotManager.reuse_same_image
    selected_mode,      \* ScreenshotManager.selected_mode
    file_name,          \* ScreenshotManager.file_name
    custom_directory,   \* ScreenshotManager.custom_directory
    file_path,          \* ScreenshotManager.file_path
    files,              \* the file system: path -> content of the file there
    clock,              \* the wall clock when it was last read, in ticks
    log,                \* one entry per finished capture_and_save call
    last,               \* the most recent capture_and_save call, in detail
    capture_mode,       \* capture_mode_combo.currentText()
    capturing,          \* ScreenshotWindow.capturing
    capture_timer,      \* the attribute ScreenshotWindow.capture_timer
    timers,             \* the living QTimer objects: id -> is it active
    frames,             \* capture_screenshot calls that have not returned
    fired,              \* number of capture_screenshot calls begun so far
    sink,               \* what the display was told to show, in order
    process,            \* "running", or "aborted" after an unhandled exception
    dirs,               \* the directories that exist
    resp,               \* the HTTP request answered last, if after the last capture
    probe,              \* the most recent direct call of a capture function
    server,             \* the HTTP server thread: "none", "serving" or "stopped"
    address,            \* ScreenshotWindow.host and ScreenshotWindow.port
    writing             \* the capture whose file is open for writing, 0 if none

mgr  == <<impl, reuse_same_image, selected_mode, file_name, custom_directory, file_path>>
hist == <<log, last>>
win  == <<capture_mode, capturing, capture_timer, timers, frames, fired, sink,
          process>>
net  == <<server, address, writing>>
srv  == <<dirs, resp, probe, net>>
vars == <<mgr, files, clock, hist, win, srv>>

----------------------------------------------------------------------------
(* Bounds of the model. *)

MaxCalls    == 2    \* capture_and_save calls in one behaviour
TicksPerSec == 2    \* clock ticks in one wall-clock second
MaxMonitors == 2    \* len(sct.monitors) ranges over 1..MaxMonitors
MaxNest     == 2    \* capture_screenshot calls blocked in a dialog at once
MaxTimers   == 2    \* QTimer objects alive at once

----------------------------------------------------------------------------
(* Strings.  A mode name is handled as the sequence of its characters. *)

Modes == {"Full Screen", "Specific Application", "Specific Monitor",
          "DirectX Game", "Specific Browser Tab"}

Chars(mode) ==
    CASE mode = "Full Screen" ->
           <<"F","u","l","l"," ","S","c","r","e","e","n">>
      [] mode = "Specific Application" ->
           <<"S","p","e","c","i","f","i","c"," ",
             "A","p","p","l","i","c","a","t","i","o","n">>
      [] mode = "Specific Monitor" ->
           <<"S","p","e","c","i","f","i","c"," ","M","o","n","i","t","o","r">>
      [] mode = "DirectX Game" ->
           <<"D","i","r","e","c","t","X"," ","G","a","m","e">>
      [] mode = "Specific Browser Tab" ->
           <<"S","p","e","c","i","f","i","c"," ",
             "B","r","o","w","s","e","r"," ","T","a","b">>

Upper == {"A","B","C","D","E","F","G","H","I","J","K","L","M",
          "N","O","P","Q","R","S","T","U","V","W","X","Y","Z"}
Lower == {"a","b","c","d","e","f","g","h","i","j","k","l","m",
          "n","o","p","q","r","s","t","u","v","w","x","y","z"}
Digit == {"0","1","2","3","4","5","6","7","8","9"}

isalnum(c) == c \in Upper \cup Lower \cup Digit

lower(c) ==
    CASE c = "A" -> "a" [] c = "B" -> "b" [] c = "C" -> "c" [] c = "D" -> "d"
      [] c = "E" -> "e" [] c = "F" -> "f" [] c = "G" -> "g" [] c = "H" -> "h"
      [] c = "I" -> "i" [] c = "J" -> "j" [] c = "K" -> "k" [] c = "L" -> "l"
      [] c = "M" -> "m" [] c = "N" -> "n" [] c = "O" -> "o" [] c = "P" -> "p"
      [] c = "Q" -> "q" [] c = "R" -> "r" [] c = "S" -> "s" [] c = "T" -> "t"
      [] c = "U" -> "u" [] c = "V" -> "v" [] c = "W" -> "w" [] c = "X" -> "x"
      [] c = "Y" -> "y" [] c = "Z" -> "z" [] OTHER -> c

RECURSIVE JoinChars(_)
JoinChars(s) == IF s = <<>> THEN "" ELSE Head(s) \o JoinChars(Tail(s))

RECURSIVE FilterAlnum(_)
FilterAlnum(s) ==
    IF s = <<>> THEN <<>>
    ELSE IF isalnum(Head(s)) THEN <<Head(s)>> \o FilterAlnum(Tail(s))
         ELSE FilterAlnum(Tail(s))

LowerAll(s) == [i \in 1..Len(s) |-> lower(s[i])]

(* ScreenshotManager.get_base_filename: app.py lower-cases, src/ does not. *)
get_base_filename(im, mode) ==
    IF im = "app"
    THEN JoinChars(LowerAll(FilterAlnum(Chars(mode)))) \o ".png"
    ELSE JoinChars(FilterAlnum(Chars(mode))) \o ".png"

----------------------------------------------------------------------------
(* Paths and the file system. *)

NoPath == [dir |-> "", name |-> ""]                 \* Python's None / ""
join(dir, name) == [dir |-> dir, name |-> name]     \* os.path.join

ImagesDir == "Images"       \* the output directory
OtherDir  == "Temp"         \* some directory that is not the output directory
StubName  == "stub_capture.png"

exists(fs, p) == p \in DOMAIN fs                    \* os.path.exists
listdir(fs, dir) == {p \in DOMAIN fs : p.dir = dir} \* os.listdir
write(fs, p, content) == (p :> content) @@ fs

(* The content of a file: the number of the capture whose image it holds   *)
(* (0 for an image from before), negated while only a part of that image   *)
(* has been written.                                                       *)
Truncated(content) == 0 - content
Complete(content) == content >= 0

Sec(t) == t \div TicksPerSec
(* datetime.now(): the clock reading at full resolution. *)
now(t) == [form |-> "datetime", t |-> t]
(* strftime("%Y-%m-%d_%H%M%S"): the clock to a whole second, sub-second lost. *)
strftime(t) == [form |-> "str", t |-> Sec(t)]
NoTime == [form |-> "none", t |-> 0]
(* The text of a formatted time, as it appears in a file name. *)
Text(ts) == "T" \o ToString(ts.t)

(* What capture_and_save hands back: None, a 4-tuple, or an exception. *)
NoOutcome == [kind |-> "None", path |-> NoPath, width |-> 0, height |-> 0,
              timestamp |-> NoTime, exc |-> ""]
Outcome(p, w, h, ts) == [kind |-> "tuple", path |-> p, width |-> w, height |-> h,
                         timestamp |-> ts, exc |-> ""]
Raised(e) == [kind |-> "raise", path |-> NoPath, width |-> 0, height |-> 0,
              timestamp |-> NoTime, exc |-> e]

ScreenSize == <<1920, 1080>>    \* what sct.grab(sct.monitors[1]) measures

----------------------------------------------------------------------------
(* Capture functions.  A capture function is described by what one call of *)
(* it does: write a file at a path and return the path, return None, or    *)
(* raise.  The fault is what the capture provider does in that call.       *)

Returns(p)  == [res |-> "path",  path |-> p,      exc |-> ""]
ReturnsNone == [res |-> "none",  path |-> NoPath, exc |-> ""]
Raises(e)   == [res |-> "raise", path |-> NoPath, exc |-> e]

(* nmon is len(sct.monitors); entry 0 is the union of all monitors, so    *)
(* monitors[1] is an IndexError when the provider reports no monitor.      *)
capture_full_screen(nmon, fault, output_path) ==
    IF nmon < 2 THEN Raises("IndexError")
    ELSE IF fault = "none" THEN Returns(output_path) ELSE Raises(fault)

(* A faulty guard that lets the index equal to the monitor count pass;     *)
(* C12 must not hold of it.                                                *)
capture_specific_monitor_off_by_one(monitor_index, nmon, fault, output_path) ==
    IF monitor_index < 1 \/ monitor_index > nmon
    THEN Raises("ValueError")
    ELSE IF fault = "none" THEN Returns(output_path) ELSE Raises(fault)

capture_specific_monitor(monitor_index, nmon, fault, output_path) ==
    IF monitor_index < 1 \/ monitor_index > nmon - 1
    THEN Raises("ValueError")
    ELSE IF fault = "none" THEN Returns(output_path) ELSE Raises(fault)

capture_window(im, fault, output_path) ==
    IF fault = "none" THEN Returns(output_path)
    ELSE IF im = "app"
         THEN IF fault \in {"ElementNotFoundError", "ScreenShotError"}
              THEN ReturnsNone ELSE Raises(fault)
         ELSE ReturnsNone

capture_directx_game(im, fault, output_path) ==
    IF fault = "none" THEN Returns(output_path)
    ELSE IF im = "app"
         THEN IF fault \in {"DXCamError", "IOError"}
              THEN ReturnsNone ELSE Raises(fault)
         ELSE ReturnsNone

capture_browser_tab(im, fault, output_path) ==
    LET r == capture_window(im, fault, output_path) IN
    IF r.res # "raise" THEN r
    ELSE IF im = "app"
         THEN IF r.exc \in {"ElementNotFoundError", "ScreenShotError", "IOError"}
              THEN ReturnsNone ELSE r
         ELSE ReturnsNone

(* One call of a capture function: the file it leaves and what it returns. *)
Call(cf, fs, content) ==
    [files |-> IF cf.res = "path" THEN write(fs, cf.path, content) ELSE fs,
     ret   |-> cf.path,
     exc   |-> cf.exc]

----------------------------------------------------------------------------
(* ScreenshotManager. *)

(* A faulty get_unique_filename that keeps the clock's full resolution;    *)
(* C26 must not hold of it.                                                *)
get_unique_filename_to_the_tick(t) == Text(now(t)) \o ".png"

(* get_unique_filename: the clock, read now, formatted to the second. *)
get_unique_filename(t) == Text(strftime(t)) \o ".png"

(* shutil.copy(src, dst): SameFileError when both name one file,           *)
(* FileNotFoundError without a source, OSError when the write fails.       *)
copy(fs, src, dst, writeOk) ==
    IF src = dst THEN [err |-> "SameFileError", files |-> fs]
    ELSE IF ~exists(fs, src) THEN [err |-> "FileNotFoundError", files |-> fs]
    ELSE IF ~writeOk THEN [err |-> "OSError", files |-> fs]
    ELSE [err |-> "", files |-> write(fs, dst, fs[src])]

(* What one call did: the files it leaves, what it handed back, whether    *)
(* it invoked the capture function and what that did, and the exception    *)
(* it caught on the way, if any.                                           *)
Result(fs, ret, invoked, bres, caught) ==
    [files |-> fs, ret |-> ret, invoked |-> invoked, bres |-> bres,
     caught |-> caught]

(* A faulty src/app.py that invokes the capture function whether or not    *)
(* the canonical file exists; C23 must not hold of it.                     *)
capture_and_save_app_always_invokes(reuse, fpath, dir, fs, cf, env, t1, t2, content) ==
    LET r == Call(cf, fs, content) IN
    IF cf.res = "raise"
    THEN IF cf.exc \in {"IOError", "ScreenShotError"}
         THEN Result(r.files, NoOutcome, TRUE, cf.res, cf.exc)
         ELSE Result(r.files, Raised(cf.exc), TRUE, cf.res, "")
    ELSE Result(r.files,
                Outcome(IF reuse /\ exists(fs, fpath) THEN fpath ELSE r.ret,
                        0, 0, now(t1)),
                TRUE, cf.res, "")

(* src/app.py.  t1 is the clock when the outcome is built. *)
capture_and_save_app(reuse, fpath, dir, fs, cf, env, t1, t2, content) ==
    IF reuse /\ exists(fs, fpath)
    THEN Result(fs, Outcome(fpath, 0, 0, now(t1)), FALSE, "n/a", "")
    ELSE LET r == Call(cf, fs, content) IN
         IF cf.res = "raise"
         THEN IF cf.exc \in {"IOError", "ScreenShotError"}
              THEN Result(r.files, NoOutcome, TRUE, cf.res, cf.exc)
              ELSE Result(r.files, Raised(cf.exc), TRUE, cf.res, "")
         ELSE Result(r.files, Outcome(r.ret, 0, 0, now(t1)), TRUE, cf.res, "")

(* src/src/screenshot_manager.py.  t1 is the clock read for the outcome's  *)
(* timestamp, t2 the later read inside get_unique_filename.                *)
capture_and_save_src(reuse, fpath, dir, fs, cf, env, t1, t2, content) ==
    LET r == Call(cf, fs, content) IN
    IF cf.res = "raise" THEN Result(r.files, NoOutcome, TRUE, cf.res, cf.exc)
    ELSE IF cf.res = "none" THEN Result(r.files, NoOutcome, TRUE, cf.res, "")
    ELSE IF ~env.grabOk
    THEN Result(r.files, NoOutcome, TRUE, cf.res, "ScreenShotError")
    ELSE LET dst == IF reuse THEN fpath
                    ELSE join(dir, get_unique_filename(t2))
             c   == copy(r.files, r.ret, dst, env.copyOk)
         IN  IF c.err = ""
             THEN Result(c.files,
                         Outcome(dst, ScreenSize[1], ScreenSize[2], strftime(t1)),
                         TRUE, cf.res, "")
             ELSE Result(c.files, NoOutcome, TRUE, cf.res, c.err)

capture_and_save(im, reuse, fpath, dir, fs, cf, env, t1, t2, content) ==
    IF im = "app"
    THEN capture_and_save_app(reuse, fpath, dir, fs, cf, env, t1, t2, content)
    ELSE capture_and_save_src(reuse, fpath, dir, fs, cf, env, t1, t2, content)

----------------------------------------------------------------------------
(* ScreenshotWindow: the capture timer.  A QTimer made without a parent is *)
(* owned by its Python reference: when the attribute capture_timer is      *)
(* rebound or deleted the object is destroyed and cannot fire again.       *)

Unset  == [is |-> "unset", id |-> 0]    \* the attribute does not exist
PyNone == [is |-> "None",  id |-> 0]    \* the attribute holds None
Ref(i) == [is |-> "timer", id |-> i]    \* the attribute holds QTimer i

(* The timers left once the object behind attribute value ct is released. *)
Release(ct, tm) ==
    IF ct.is = "timer" THEN [i \in DOMAIN tm \ {ct.id} |-> tm[i]] ELSE tm

ActiveTimers(tm) == {i \in DOMAIN tm : tm[i]}

(* The identity of a newly made QTimer: one that no living object has. *)
NewTimer(tm) == CHOOSE i \in 1..(Cardinality(DOMAIN tm) + 1) : i \notin DOMAIN tm

(* A faulty start_capturing that leaves the timer bound before running     *)
(* (as a QTimer with a parent would); C9 must not hold of it.              *)
start_capturing_keeping_old(ct, tm) ==
    LET id == NewTimer(tm) IN
    [capturing     |-> TRUE,
     capture_timer |-> Ref(id),
     timers        |-> (id :> TRUE) @@ tm,
     exc           |-> ""]

(* start_capturing: capturing = True, a new QTimer bound to the attribute  *)
(* (which releases the object bound before) and started.                   *)
start_capturing(ct, tm) ==
    LET id == NewTimer(tm) IN
    [capturing     |-> TRUE,
     capture_timer |-> Ref(id),
     timers        |-> (id :> TRUE) @@ Release(ct, tm),
     exc           |-> ""]

(* A faulty stop_capturing that clears the flag and forgets the timer       *)
(* without stopping it; C8 must not hold of it.                            *)
stop_capturing_flag_only(ct, tm) ==
    IF ct.is = "unset"
    THEN [capturing |-> FALSE, capture_timer |-> ct, timers |-> tm, exc |-> ""]
    ELSE IF ct.is = "None"
    THEN [capturing |-> FALSE, capture_timer |-> ct, timers |-> tm,
          exc |-> "AttributeError"]
    ELSE [capturing |-> FALSE, capture_timer |-> Unset,
          timers |-> tm, exc |-> ""]

(* stop_capturing: capturing = False; if the attribute exists, stop() on   *)
(* it and del.  On None the call of stop() raises AttributeError, which    *)
(* the handler's except clause does not name.                              *)
stop_capturing(ct, tm) ==
    IF ct.is = "unset"
    THEN [capturing |-> FALSE, capture_timer |-> ct, timers |-> tm, exc |-> ""]
    ELSE IF ct.is = "None"
    THEN [capturing |-> FALSE, capture_timer |-> ct, timers |-> tm,
          exc |-> "AttributeError"]
    ELSE [capturing |-> FALSE, capture_timer |-> Unset,
          timers |-> Release(ct, tm), exc |-> ""]

(* The attribute after __init__: app.py sets it to None, src/ does not set it. *)
InitialTimerAttr(im) == IF im = "app" THEN PyNone ELSE Unset

----------------------------------------------------------------------------
(* ScreenshotWindow.capture_screenshot, the slot of the timer. *)

MonitorIndex == 1       \* the monitor index both implementations pass

(* The capture function chosen for a mode, bound to file_path. *)
get_capture_function(im, mode, fpath, nmon, fault) ==
    CASE mode = "Full Screen"          -> capture_full_screen(nmon, fault, fpath)
      [] mode = "Specific Application" -> capture_window(im, fault, fpath)
      [] mode = "Specific Monitor"     ->
             capture_specific_monitor(MonitorIndex, nmon, fault, fpath)
      [] mode = "DirectX Game"         -> capture_directx_game(im, fault, fpath)
      [] mode = "Specific Browser Tab" -> capture_browser_tab(im, fault, fpath)

(* What the capture provider can do in one call of a mode's function. *)
FaultsOf(mode) ==
    CASE mode \in {"Full Screen", "Specific Monitor"} ->
             {"none", "ScreenShotError", "IOError"}
      [] mode \in {"Specific Application", "Specific Browser Tab"} ->
             {"none", "ElementNotFoundError", "ScreenShotError", "IOError", "Other"}
      [] mode = "DirectX Game" ->
             {"none", "DXCamError", "IOError", "Other"}

Notification(o, ts) ==
    [path |-> o.path, width |-> o.width, height |-> o.height, timestamp |-> ts]

Handled(r, dialog, unhandled, notes) ==
    [cas |-> r, dialog |-> dialog, unhandled |-> unhandled, notes |-> notes]

(* src/app.py: a truthy result is unpacked and emitted on                  *)
(* screenshot_signal(str, int, int, str); emitting None for the str raises *)
(* TypeError.  ValueError, IOError and ScreenShotError end in a modal      *)
(* QMessageBox; anything else leaves the slot unhandled.                   *)
capture_screenshot_app(r) ==
    IF r.ret.kind = "raise"
    THEN IF r.ret.exc \in {"ValueError", "IOError", "ScreenShotError"}
         THEN Handled(r, "critical", "", <<>>)
         ELSE Handled(r, "", r.ret.exc, <<>>)
    ELSE IF r.ret.kind = "tuple"
    THEN IF r.ret.path = NoPath
         THEN Handled(r, "", "TypeError", <<>>)
         ELSE Handled(r, "", "",
                      <<Notification(r.ret, strftime(r.ret.timestamp.t))>>)
    ELSE Handled(r, "", "", <<>>)

(* A faulty handler that tells the display about every result, None        *)
(* included; C11 must not hold of it.                                      *)
capture_screenshot_src_always_notifies(r) ==
    IF r.ret.kind = "raise"
    THEN Handled(r, "critical", "", <<>>)
    ELSE Handled(r, "", "", <<Notification(r.ret, r.ret.timestamp)>>)

(* src/src/ui.py: a truthy result goes to update_image; any exception ends *)
(* in a modal QMessageBox.                                                 *)
capture_screenshot_src(r) ==
    IF r.ret.kind = "raise"
    THEN Handled(r, "critical", "", <<>>)
    ELSE IF r.ret.kind = "tuple"
    THEN Handled(r, "", "", <<Notification(r.ret, r.ret.timestamp)>>)
    ELSE Handled(r, "", "", <<>>)

capture_screenshot(im, r) ==
    IF im = "app" THEN capture_screenshot_app(r) ELSE capture_screenshot_src(r)

----------------------------------------------------------------------------
(* The state after construction. *)

(* No request answered and no capture function called directly so far. *)
NoResponse == [route |-> "", status |-> 0, error |-> "", body |-> "",
               path |-> NoPath, content |-> 0, whole |-> FALSE, escaped |-> "",
               hook |-> FALSE]
NoProbe == [fn |-> "", index |-> 0, nmon |-> 0, fault |-> "",
            res |-> "", exc |-> "", before |-> <<>>]

NoCall == [id |-> 0, reuse |-> FALSE, bres |-> "n/a", bpath |-> NoPath,
           caught |-> "", ret |-> NoOutcome, invoked |-> FALSE,
           before |-> <<>>, at |-> 0]

InitManager(modes) ==
    /\ impl \in {"app", "src"}
    /\ reuse_same_image \in BOOLEAN
    /\ selected_mode \in modes
    /\ file_name = get_base_filename(impl, selected_mode)
    /\ custom_directory = ImagesDir
    /\ file_path = join(custom_directory, file_name)
    /\ files \in {<<>>, file_path :> 0}
    /\ clock = 0
    /\ log = <<>>
    /\ last = NoCall
    /\ sink = <<>>
    /\ dirs = {custom_directory, OtherDir}
    /\ resp = NoResponse
    /\ probe = NoProbe
    /\ writing = 0

(* DEFAULT_FLASK_HOST and DEFAULT_FLASK_PORT, the defaults of --host and   *)
(* --port.                                                                 *)
DefaultAddress == [host |-> "127.0.0.1", port |-> 5000]

(* main(): src/app.py starts a FlaskAppThread before it makes the window;  *)
(* src/src/main.py makes the window only, and the window leaves flask_app  *)
(* and flask_thread None.                                                  *)
main(im) == IF im = "app" THEN "serving" ELSE "none"

(* The window of a manager nobody has started yet. *)
InitIdle ==
    /\ capture_mode = "Full Screen"
    /\ address = DefaultAddress
    /\ capturing = FALSE
    /\ capture_timer = InitialTimerAttr(impl)
    /\ timers = <<>>
    /\ frames = <<>>
    /\ fired = 0
    /\ process = "running"

(* With --start, __init__ itself calls start_capturing. *)
InitStarted ==
    LET s == start_capturing(InitialTimerAttr(impl), <<>>) IN
    /\ capture_mode = "Full Screen"
    /\ address = DefaultAddress
    /\ capturing = s.capturing
    /\ capture_timer = s.capture_timer
    /\ timers = s.timers
    /\ frames = <<>>
    /\ fired = 0
    /\ process = "running"

----------------------------------------------------------------------------
(* Bookkeeping shared by the specifications.  Time passes on its own: a   *)
(* call starts gap ticks after the clock was last read, and d more ticks   *)
(* pass between the call's own two readings of the clock.                  *)

Gaps == {0, TicksPerSec}

(* Only the package reads the clock twice, and only to name a new file. *)
Delays(im, reuse) == IF im = "src" /\ ~reuse THEN 0..1 ELSE {0}

LogEntry(r, reuse, nbefore, at, end) ==
    [kind |-> r.ret.kind, path |-> r.ret.path, reuse |-> reuse,
     nbefore |-> nbefore, at |-> at, end |-> end]

CallRecord(id, reuse, cf, r, fs, at) ==
    [id |-> id, reuse |-> reuse, bres |-> r.bres,
     bpath |-> IF r.invoked THEN cf.path ELSE NoPath, caught |-> r.caught,
     ret |-> r.ret, invoked |-> r.invoked, before |-> fs, at |-> at]

(* What the screen grab for the dimensions and the disk do in one call;   *)
(* only src/ measures and copies.                                          *)
Envs(im, cf) ==
    IF im = "app" \/ cf.res # "path"
    THEN {[grabOk |-> TRUE, copyOk |-> TRUE]}
    ELSE {[grabOk |-> TRUE,  copyOk |-> TRUE],
          [grabOk |-> FALSE, copyOk |-> TRUE],
          [grabOk |-> TRUE,  copyOk |-> FALSE]}

----------------------------------------------------------------------------
(* The manager on its own, called with any capture function. *)

Exceptions == {"ValueError", "IOError", "ScreenShotError", "Other"}

CaptureFunctions ==
    {Returns(p) : p \in {file_path, join(custom_directory, StubName),
                         join(OtherDir, StubName)}}
    \cup {ReturnsNone} \cup {Raises(e) : e \in Exceptions}

(* One call of capture_and_save, from its first step to its return. *)
Capture(cf, env, gap, d) ==
    LET id == Len(log) + 1
        at == clock + gap
        r  == capture_and_save(impl, reuse_same_image, file_path,
                               custom_directory, files, cf, env,
                               at, at + d, id)
    IN  /\ Len(log) < MaxCalls
        /\ files' = r.files
        /\ clock' = at + d
        /\ log' = Append(log, LogEntry(r, reuse_same_image,
                      Cardinality(listdir(files, custom_directory)), at, at + d))
        /\ last' = CallRecord(id, reuse_same_image, cf, r, files, at)
        /\ resp' = NoResponse
        /\ UNCHANGED <<mgr, win, dirs, probe, server, address>>

CaptureAndSave(cf, env, gap, d) ==
    /\ writing = 0
    /\ Capture(cf, env, gap, d)
    /\ UNCHANGED writing

(* The modes the manager is constructed with when it is studied alone. *)
ManagerModes == {"Full Screen", "Specific Monitor"}

InitM == InitManager(ManagerModes) /\ InitIdle /\ server = "none"

NextM ==
    \E cf \in CaptureFunctions, gap \in Gaps,
       d \in Delays(impl, reuse_same_image) :
        \E env \in Envs(impl, cf) : CaptureAndSave(cf, env, gap, d)

SpecManager == InitM /\ [][NextM]_vars

----------------------------------------------------------------------------
(* The capture functions on their own, called directly as the tests do. *)

(* The monitor indexes a caller can ask for: src/app.py fixes the index    *)
(* inside the function, the package takes it as its first argument.        *)
MonitorIndexes(im) ==
    IF im = "app" THEN {MonitorIndex} ELSE 0..(MaxMonitors + 1)

(* capture_specific_monitor(index, file_path) with len(sct.monitors) =     *)
(* nmon; the file it writes holds the image of monitor index.              *)
CaptureMonitor(index, nmon, fault) ==
    LET cf == capture_specific_monitor(index, nmon, fault, file_path)
        r  == Call(cf, files, index)
    IN  /\ files' = r.files
        /\ probe' = [fn |-> "capture_specific_monitor", index |-> index,
                     nmon |-> nmon, fault |-> fault, res |-> cf.res,
                     exc |-> cf.exc, before |-> files]
        /\ UNCHANGED <<mgr, clock, hist, win, dirs, resp, net>>

NextB ==
    \E index \in MonitorIndexes(impl), nmon \in 1..MaxMonitors,
       fault \in FaultsOf("Specific Monitor") :
        CaptureMonitor(index, nmon, fault)

SpecBackends == InitM /\ [][NextB]_vars

----------------------------------------------------------------------------
(* FlaskApp: the routes.  A handler looks at the file system twice: the    *)
(* os.path.exists test sees fs; io is what the later read finds, the file  *)
(* as it was ("ok"), a file being rewritten ("partial"), or the exception  *)
(* the read raises because the file has gone or is locked meanwhile.       *)

IOErrors == {"IOError", "OSError", "FileNotFoundError", "PermissionError"}

Reply(status, body, error, p, content, whole, escaped, fs) ==
    [status |-> status, body |-> body, error |-> error, path |-> p,
     content |-> content, whole |-> whole, escaped |-> escaped, files |-> fs]

(* An exception no except clause of the handler names: Flask answers 500. *)
Escapes(exc, fs) == Reply(500, "html", "", NoPath, 0, FALSE, exc, fs)

(* The except clauses: src/app.py names IOError (OSError) and, in          *)
(* /metadata, UnidentifiedImageError; the package names Exception.         *)
Catches(im, route, exc) ==
    IF im = "src" THEN TRUE
    ELSE IF route = "/metadata"
    THEN exc \in IOErrors \cup {"UnidentifiedImageError"}
    ELSE exc \in IOErrors

(* A faulty send_file that removes the file it has sent; C16 must not      *)
(* hold of it.                                                             *)
send_file_consuming(fs, p, io) ==
    IF io \in IOErrors
    THEN [exc |-> io, content |-> 0, whole |-> FALSE, files |-> fs]
    ELSE [exc |-> "", content |-> fs[p],
          whole |-> (io = "ok" /\ Complete(fs[p])),
          files |-> [q \in DOMAIN fs \ {p} |-> fs[q]]]

(* flask.send_file: opens the file and streams what is in it. *)
send_file(fs, p, io) ==
    IF io \in IOErrors
    THEN [exc |-> io, content |-> 0, whole |-> FALSE, files |-> fs]
    ELSE [exc |-> "", content |-> fs[p],
          whole |-> (io = "ok" /\ Complete(fs[p])), files |-> fs]

(* A faulty /screenshot that skips the os.path.exists test; C13 must not   *)
(* hold of it.                                                             *)
get_screenshot_unchecked(im, fs, fpath, io) ==
    LET f == send_file(fs, fpath,
                       IF exists(fs, fpath) THEN io ELSE "FileNotFoundError") IN
    IF f.exc = ""
    THEN Reply(200, "image", "", fpath, f.content, f.whole, "", f.files)
    ELSE IF Catches(im, "/screenshot", f.exc)
    THEN Reply(500, "json", f.exc, NoPath, 0, FALSE, "", f.files)
    ELSE Escapes(f.exc, f.files)

(* GET /screenshot *)
get_screenshot(im, fs, fpath, io) ==
    IF ~exists(fs, fpath)
    THEN Reply(404, "json", "No screenshot available.", NoPath, 0, FALSE, "", fs)
    ELSE LET f == send_file(fs, fpath, io) IN
         IF f.exc = ""
         THEN Reply(200, "image", "", fpath, f.content, f.whole, "", f.files)
         ELSE IF Catches(im, "/screenshot", f.exc)
         THEN Reply(500, "json", f.exc, NoPath, 0, FALSE, "", f.files)
         ELSE Escapes(f.exc, f.files)

(* os.path.getmtime and Image.open(...).size: the header of the file is    *)
(* enough, so a file being rewritten is either read or not identified.     *)
ReadImage(fs, p, io) ==
    IF io \in {"ok", "partial"}
    THEN [exc |-> "", content |-> fs[p]]
    ELSE [exc |-> io, content |-> 0]

(* A faulty /metadata that names IOError alone; C17 must not hold of it. *)
get_metadata_io_only(im, fs, fpath, io) ==
    IF ~exists(fs, fpath)
    THEN Reply(404, "json",
               IF im = "app" THEN "No metadata available."
                             ELSE "No screenshot available.",
               NoPath, 0, FALSE, "", fs)
    ELSE LET f == ReadImage(fs, fpath, io) IN
         IF f.exc = ""
         THEN Reply(200, "json", "", fpath, f.content, TRUE, "", fs)
         ELSE IF f.exc \in IOErrors
         THEN Reply(500, "json", f.exc, NoPath, 0, FALSE, "", fs)
         ELSE Escapes(f.exc, fs)

(* GET /metadata: timestamp and dimensions of the file at file_path. *)
get_metadata(im, fs, fpath, io) ==
    IF ~exists(fs, fpath)
    THEN Reply(404, "json",
               IF im = "app" THEN "No metadata available."
                             ELSE "No screenshot available.",
               NoPath, 0, FALSE, "", fs)
    ELSE LET f == ReadImage(fs, fpath, io) IN
         IF f.exc = ""
         THEN Reply(200, "json", "", fpath, f.content, TRUE, "", fs)
         ELSE IF Catches(im, "/metadata", f.exc)
         THEN Reply(500, "json", f.exc, NoPath, 0, FALSE, "", fs)
         ELSE Escapes(f.exc, fs)

(* A faulty /status that reports the scheduler; C14 must not hold of it. *)
get_status_of_scheduler(fs, running) ==
    IF running
    THEN Reply(200, "running", "", NoPath, 0, FALSE, "", fs)
    ELSE Reply(503, "idle", "", NoPath, 0, FALSE, "", fs)

(* GET /status *)
get_status(fs, running) == Reply(200, "running", "", NoPath, 0, FALSE, "", fs)

(* GET /viewer: the HTML page. *)
viewer(fs) == Reply(200, "html", "", NoPath, 0, FALSE, "", fs)

Routes == {"/screenshot", "/metadata", "/status", "/viewer"}

(* What the read of a route can find. *)
ReadsOf(route) ==
    CASE route = "/screenshot" ->
             {"ok", "partial", "FileNotFoundError", "PermissionError"}
      [] route = "/metadata" ->
             {"ok", "partial", "FileNotFoundError", "PermissionError",
              "UnidentifiedImageError"}
      [] OTHER -> {"ok"}

(* One GET request, handled by the server thread. *)
Get(route, io) ==
    LET h == CASE route = "/screenshot" ->
                      get_screenshot(impl, files, file_path, io)
               [] route = "/metadata" ->
                      get_metadata(impl, files, file_path, io)
               [] route = "/status" -> get_status(files, capturing)
               [] route = "/viewer" -> viewer(files)
    IN  /\ process = "running"
        /\ server = "serving"
        /\ files' = h.files
        /\ resp' = [route |-> route, status |-> h.status, error |-> h.error,
                    body |-> h.body, path |-> h.path, content |-> h.content,
                    whole |-> h.whole, escaped |-> h.escaped, hook |-> FALSE]
        /\ UNCHANGED <<mgr, clock, hist, win, dirs, probe, net>>

(* A faulty /shutdown that answers 200 without calling the hook; C21 must  *)
(* not hold of it.                                                         *)
shutdown_server_reply_only(fs, hook, sv) ==
    IF ~hook
    THEN [reply  |-> Reply(500, "json", "Not running with the Werkzeug Server",
                           NoPath, 0, FALSE, "", fs),
          server |-> sv]
    ELSE [reply  |-> Reply(200, "Server shutting down...", "", NoPath, 0, FALSE,
                           "", fs),
          server |-> sv]

(* POST /shutdown.  hook tells whether request.environ holds               *)
(* 'werkzeug.server.shutdown'; calling it makes the server leave           *)
(* serve_forever once this request is answered.                            *)
shutdown_server(fs, hook, sv) ==
    IF ~hook
    THEN [reply  |-> Reply(500, "json", "Not running with the Werkzeug Server",
                           NoPath, 0, FALSE, "", fs),
          server |-> sv]
    ELSE [reply  |-> Reply(200, "Server shutting down...", "", NoPath, 0, FALSE,
                           "", fs),
          server |-> "stopped"]

(* One POST /shutdown request.  Werkzeug before 2.1 puts the hook in the   *)
(* environ of every request; later versions and the test client do not.    *)
PostShutdown(hook) ==
    LET h == shutdown_server(files, hook, server) IN
    /\ process = "running"
    /\ server = "serving"
    /\ files' = h.reply.files
    /\ server' = h.server
    /\ resp' = [route |-> "/shutdown", status |-> h.reply.status,
                error |-> h.reply.error, body |-> h.reply.body,
                path |-> h.reply.path, content |-> h.reply.content,
                whole |-> h.reply.whole, escaped |-> h.reply.escaped,
                hook |-> hook]
    /\ UNCHANGED <<mgr, clock, hist, win, dirs, probe, address, writing>>

(* The capture timeline beside the server thread.  The capture function    *)
(* the window passes writes file_path itself: to_png (and Image.save)      *)
(* open the path with mode "wb", which empties the file, write the image   *)
(* piece by piece and close it.  A request can be handled between the      *)
(* open and the close.                                                     *)

(* A faulty writer that builds the image in a file of its own, to be       *)
(* renamed to the path when complete; C25 must not hold of it.             *)
open_output_in_temporary_file(fs, p, id) ==
    write(fs, join(OtherDir, StubName), Truncated(id))

(* open(output_path, "wb") and the first writes of capture id. *)
open_output(fs, p, id) == write(fs, p, Truncated(id))

(* capture_and_save has come to the point where its capture function has   *)
(* the output open.  src/app.py does not get there under the reuse policy  *)
(* with the file in place.                                                 *)
OpenOutput ==
    /\ process = "running"
    /\ writing = 0
    /\ Len(log) < MaxCalls
    /\ ~(impl = "app" /\ reuse_same_image /\ exists(files, file_path))
    /\ files' = open_output(files, file_path, Len(log) + 1)
    /\ writing' = Len(log) + 1
    /\ resp' = NoResponse
    /\ UNCHANGED <<mgr, clock, hist, win, dirs, probe, server, address>>

(* The capture function writes the rest, closes the file and returns;      *)
(* capture_and_save runs to its end.                                       *)
CloseOutput(env, gap, d) ==
    /\ writing # 0
    /\ Capture(Returns(file_path), env, gap, d)
    /\ writing' = 0

InitR ==
    InitManager({"Full Screen"}) /\ InitIdle /\ server = "serving"

NextR ==
    \/ OpenOutput
    \/ \E gap \in Gaps, d \in Delays(impl, reuse_same_image) :
           \E env \in Envs(impl, Returns(file_path)) : CloseOutput(env, gap, d)
    \/ \E gap \in Gaps :
           /\ impl = "app" /\ reuse_same_image /\ exists(files, file_path)
           /\ CaptureAndSave(Returns(file_path),
                             [grabOk |-> TRUE, copyOk |-> TRUE], gap, 0)
    \/ \E route \in {"/screenshot", "/metadata"} :
           \E io \in ReadsOf(route) : Get(route, io)

SpecRace == InitR /\ [][NextR]_vars

(* The manager and the routes.  The capture functions are the one the     *)
(* window passes, which writes file_path, one that writes elsewhere as the *)
(* stubs of the tests do, and one that finds nothing to capture; the       *)
(* captures are a second apart.                                            *)
ServerFunctions ==
    {Returns(file_path), Returns(join(OtherDir, StubName)), ReturnsNone}

InitS ==
    InitManager({"Full Screen"}) /\ (InitIdle \/ InitStarted) /\ server = "serving"

NextS ==
    \/ \E cf \in ServerFunctions :
           \E env \in Envs(impl, cf) : CaptureAndSave(cf, env, TicksPerSec, 0)
    \/ \E route \in Routes : \E io \in ReadsOf(route) : Get(route, io)
    \/ \E hook \in BOOLEAN : PostShutdown(hook)

SpecServer == InitS /\ [][NextS]_vars

----------------------------------------------------------------------------
(* The Settings tab: apply_settings.  In order: int(port text), host and   *)
(* port, the reuse flag, custom_directory, file_path, os.makedirs.  An     *)
(* exception ends the handler in a message box with what was assigned      *)
(* before it left in place.                                                *)

NewDir == "Shots"       \* a directory that does not exist at first

(* int(text) for the texts typed into the port field. *)
int(text) ==
    CASE text = "5000" -> [exc |-> "", n |-> 5000]
      [] text = "8080" -> [exc |-> "", n |-> 8080]
      [] OTHER         -> [exc |-> "ValueError", n |-> 0]

(* A faulty apply_settings that makes the directory before it assigns      *)
(* file_path; C27 must not hold of it.                                     *)
apply_settings_path_after_makedirs(host, port_text, reuse, dir, mkOk, m, ds) ==
    IF int(port_text).exc # ""
    THEN [address |-> m.address,
          reuse_same_image |-> m.reuse_same_image,
          custom_directory |-> m.custom_directory,
          file_path |-> m.file_path, dirs |-> ds, exc |-> int(port_text).exc]
    ELSE [address |-> [host |-> host, port |-> int(port_text).n],
          reuse_same_image |-> reuse,
          custom_directory |-> dir,
          file_path |-> IF mkOk \/ dir \in ds THEN join(dir, m.file_name)
                        ELSE m.file_path,
          dirs |-> IF mkOk THEN ds \cup {dir} ELSE ds,
          exc  |-> IF mkOk \/ dir \in ds THEN "" ELSE "OSError"]

(* m is what the window and the manager hold, ds the directories there     *)
(* are; mkOk tells whether os.makedirs can make a missing directory.       *)
apply_settings(host, port_text, reuse, dir, mkOk, m, ds) ==
    IF int(port_text).exc # ""
    THEN [address |-> m.address,
          reuse_same_image |-> m.reuse_same_image,
          custom_directory |-> m.custom_directory,
          file_path |-> m.file_path, dirs |-> ds, exc |-> int(port_text).exc]
    ELSE [address |-> [host |-> host, port |-> int(port_text).n],
          reuse_same_image |-> reuse,
          custom_directory |-> dir,
          file_path |-> join(dir, m.file_name),
          dirs |-> IF mkOk THEN ds \cup {dir} ELSE ds,
          exc  |-> IF mkOk \/ dir \in ds THEN "" ELSE "OSError"]

ApplySettings(host, port_text, reuse, dir, mkOk) ==
    LET m == [address |-> address, reuse_same_image |-> reuse_same_image,
              custom_directory |-> custom_directory,
              file_name |-> file_name, file_path |-> file_path]
        a == apply_settings(host, port_text, reuse, dir, mkOk, m, dirs)
    IN  /\ process = "running"
        /\ address' = a.address
        /\ reuse_same_image' = a.reuse_same_image
        /\ custom_directory' = a.custom_directory
        /\ file_path' = a.file_path
        /\ dirs' = a.dirs
        /\ UNCHANGED <<impl, selected_mode, file_name, files, clock, hist, win,
                       resp, probe, server, writing>>

(* The capture function the window passes: it writes file_path, which a    *)
(* missing directory makes fail.                                           *)
SettingsFunctions ==
    IF file_path.dir \in dirs
    THEN {Returns(file_path), ReturnsNone}
    ELSE {Raises("IOError"), ReturnsNone}

InitG == InitManager({"Full Screen"}) /\ InitIdle /\ server = main(impl)

(* What the user types into the host and port fields. *)
HostTexts == {DefaultAddress.host, "0.0.0.0"}
PortTexts == {"8080", "abc"}

NextG ==
    \/ \E cf \in SettingsFunctions :
           \E env \in Envs(impl, cf) : CaptureAndSave(cf, env, TicksPerSec, 0)
    \/ \E host \in HostTexts, port_text \in PortTexts, reuse \in BOOLEAN,
          dir \in {ImagesDir, NewDir}, mkOk \in BOOLEAN :
           ApplySettings(host, port_text, reuse, dir, mkOk)

SpecSettings == InitG /\ [][NextG]_vars

----------------------------------------------------------------------------
(* The application: the window, its capture timer and the manager.  The    *)
(* GUI thread runs one handler at a time; a handler that opens a modal     *)
(* QMessageBox waits in a nested event loop, where timers go on firing.    *)

(* An exception no handler catches reaches PyQt: it ends the process       *)
(* (qFatal) or is only reported, depending on the PyQt version and hook.   *)
AfterUnhandled(exc) ==
    IF exc # "" THEN {"aborted", "running"} ELSE {"running"}

(* len(sct.monitors) as far as a mode's capture function reads it. *)
MonitorCounts(mode) ==
    IF mode \in {"Full Screen", "Specific Monitor"}
    THEN 1..MaxMonitors ELSE {MaxMonitors}

(* QTimer.timeout -> capture_screenshot. *)
Fire(nmon, fault, env, gap, d) ==
    LET id == Len(log) + 1
        at == clock + gap
        cf == get_capture_function(impl, capture_mode, file_path, nmon, fault)
        r  == capture_and_save(impl, reuse_same_image, file_path,
                               custom_directory, files, cf, env,
                               at, at + d, id)
        h  == capture_screenshot(impl, r)
    IN  /\ process = "running"
        /\ ActiveTimers(timers) # {}
        /\ Len(log) < MaxCalls
        /\ Len(frames) < MaxNest
        /\ files' = r.files
        /\ clock' = at + d
        /\ log' = Append(log, LogEntry(r, reuse_same_image,
                      Cardinality(listdir(files, custom_directory)), at, at + d))
        /\ last' = CallRecord(id, reuse_same_image, cf, r, files, at)
        /\ sink' = sink \o h.notes
        /\ frames' = IF h.dialog # ""
                     THEN Append(frames, [id |-> fired + 1, dialog |-> h.dialog])
                     ELSE frames
        /\ fired' = fired + 1
        /\ process' \in AfterUnhandled(h.unhandled)
        /\ resp' = NoResponse
        /\ UNCHANGED <<mgr, capture_mode, capturing, capture_timer, timers,
                       dirs, probe, net>>

(* The user closes the topmost message box; its capture_screenshot returns. *)
Dismiss ==
    /\ process = "running"
    /\ frames # <<>>
    /\ frames' = SubSeq(frames, 1, Len(frames) - 1)
    /\ UNCHANGED <<mgr, files, clock, hist, capture_mode, capturing,
                   capture_timer, timers, fired, sink, process, srv>>

(* The user picks a mode in capture_mode_combo (not while a dialog blocks it). *)
SelectMode(m) ==
    /\ process = "running"
    /\ frames = <<>>
    /\ m # capture_mode
    /\ capture_mode' = m
    /\ UNCHANGED <<mgr, files, clock, hist, capturing, capture_timer, timers,
                   frames, fired, sink, process, srv>>

StartCapturing ==
    LET s == start_capturing(capture_timer, timers) IN
    /\ process = "running"
    /\ Cardinality(DOMAIN s.timers) <= MaxTimers
    /\ capturing' = s.capturing
    /\ capture_timer' = s.capture_timer
    /\ timers' = s.timers
    /\ UNCHANGED <<mgr, files, clock, hist, capture_mode, frames, fired, sink,
                   process, srv>>

StopCapturing ==
    LET s == stop_capturing(capture_timer, timers) IN
    /\ process = "running"
    /\ capturing' = s.capturing
    /\ capture_timer' = s.capture_timer
    /\ timers' = s.timers
    /\ process' \in AfterUnhandled(s.exc)
    /\ UNCHANGED <<mgr, files, clock, hist, capture_mode, frames, fired, sink,
                   srv>>

(* toggle_capturing(checked): the slot of the toggle button. *)
ToggleCapturing(checked) ==
    IF checked THEN StartCapturing ELSE StopCapturing

(* The application is studied with the default --mode. *)
Init ==
    InitManager({"Full Screen"}) /\ (InitIdle \/ InitStarted)
        /\ server = main(impl)

Next ==
    \/ \E nmon \in MonitorCounts(capture_mode), fault \in FaultsOf(capture_mode),
          gap \in Gaps, d \in Delays(impl, reuse_same_image) :
           \E env \in Envs(impl, get_capture_function(impl, capture_mode,
                                                      file_path, nmon, fault)) :
               Fire(nmon, fault, env, gap, d)
    \/ Dismiss
    \/ \E m \in Modes : SelectMode(m)
    \/ StartCapturing
    \/ StopCapturing
    \/ \E checked \in BOOLEAN : ToggleCapturing(checked)

Spec == Init /\ [][Next]_vars

----------------------------------------------------------------------------
(* Properties of capture_and_save. *)

Called    == last.id > 0
NoFault   == last.caught \notin {"ScreenShotError", "OSError"}
Succeeded(c) == c.kind = "tuple" /\ c.path # NoPath
OutputFiles(fs) == listdir(fs, custom_directory)

(* C1: whenever the capture function is invoked and returns no path, the   *)
(* call returns None, never a tuple, and leaves the files of the output    *)
(* directory as they were.                                                 *)
C1_NoPathGivesNone ==
    (Called /\ last.invoked /\ last.bres = "none") =>
        /\ last.ret.kind = "None"
        /\ OutputFiles(files) = OutputFiles(last.before)

(* C2: under the reuse policy every successful call returns the manager's  *)
(* file_path, whatever path the capture function returned.                 *)
C2_ReuseReturnsFilePath ==
    \A i \in 1..Len(log) :
        (log[i].reuse /\ Succeeded(log[i])) => log[i].path = file_path

(* C3: under the reuse policy the file at file_path holds the content of   *)
(* the most recent call that returned an outcome.                          *)
C3_ReuseFileIsLatest ==
    LET done == {i \in 1..Len(log) : log[i].reuse /\ log[i].kind = "tuple"} IN
    done # {} =>
        /\ exists(files, file_path)
        /\ files[file_path] = CHOOSE i \in done : \A j \in done : j <= i

(* C4: under the timestamped-history policy, N successful calls at least   *)
(* one second apart return N distinct paths and leave exactly N files in   *)
(* an output directory that was empty at first.                            *)
HistoryRun ==
    /\ Len(log) > 0
    /\ log[1].nbefore = 0
    /\ \A i \in 1..Len(log) : ~log[i].reuse /\ Succeeded(log[i])
    /\ \A i \in 1..Len(log) - 1 : log[i + 1].at - log[i].at >= TicksPerSec

C4_HistoryDistinct ==
    HistoryRun =>
        /\ \A i, j \in 1..Len(log) : i # j => log[i].path # log[j].path
        /\ Cardinality(OutputFiles(files)) = Len(log)

(* C5: whenever the capture function succeeds (and neither the screen grab *)
(* nor the disk fails), the call returns a populated outcome, also when    *)
(* the function wrote to file_path itself.                                 *)
C5_SuccessGivesOutcome ==
    (Called /\ last.invoked /\ last.bres = "path" /\ NoFault) =>
        Succeeded(last.ret)

(* C6: no exception of the capture function or of persisting the file      *)
(* leaves capture_and_save; each such failure becomes None.                *)
C6_NoExceptionEscapes ==
    Called =>
        /\ last.ret.kind # "raise"
        /\ (last.bres = "raise" => last.ret.kind = "None")

----------------------------------------------------------------------------
(* Properties of the capture timer. *)

Blocked(i) == frames[i].id   \* the firing whose capture_screenshot waits in frame i

(* C7: a firing never begins a capture_screenshot while that of an earlier *)
(* firing has not returned, a modal error dialog included: every call that *)
(* has not returned belongs to the latest firing.                          *)
C7_OneCaptureAtATime ==
    \A i \in DOMAIN frames : Blocked(i) = fired

(* C8: stop_capturing leaves capturing false and no trigger active and     *)
(* does not disturb a capture_screenshot in flight; while capturing is     *)
(* false, that is until the next start_capturing, no attempt begins.       *)
C8_StoppedMeansNoAttempt ==
    /\ [][StopCapturing => /\ ~capturing'
                           /\ ActiveTimers(timers') = {}
                           /\ frames' = frames]_vars
    /\ [][~capturing => fired' = fired]_vars

(* stop_capturing has cancelled a trigger that had fired: attempts were    *)
(* made, the attribute is deleted and the window lives on.                 *)
C8_Witness ==
    /\ ~capturing
    /\ capture_timer = Unset
    /\ fired > 0
    /\ process = "running"

(* C9: after any sequence of start_capturing, stop_capturing and           *)
(* toggle_capturing, also a start while already Running, at most one       *)
(* trigger is active, and capturing is true exactly when one is.           *)
C9_OneTriggerIffCapturing ==
    /\ Cardinality(ActiveTimers(timers)) <= 1
    /\ capturing <=> Cardinality(ActiveTimers(timers)) = 1

(* start_capturing ran while a timer was bound: only then is the new       *)
(* QTimer made while QTimer 1 is still alive, so that it is QTimer 2.      *)
C9_Witness ==
    /\ capturing
    /\ capture_timer = Ref(2)
    /\ ActiveTimers(timers) = {2}

(* C10: a failed attempt never stops the scheduler: after an attempt that  *)
(* gave no outcome the application is still running, and with it the       *)
(* timer of a window that is capturing.                                    *)
C10_FailureKeepsScheduler ==
    (Called /\ ~Succeeded(last.ret)) =>
        /\ process = "running"
        /\ capturing => ActiveTimers(timers) # {}

----------------------------------------------------------------------------
(* Properties of the notifications to the display. *)

Successes == {i \in 1..Len(log) : Succeeded(log[i])}

----------------------------------------------------------------------------
(* Properties of the capture functions. *)

(* C12: capture_specific_monitor raises ValueError and writes no file for  *)
(* index 0 and for every index greater than or equal to the monitor count, *)
(* and, the provider working, writes and returns its output path for       *)
(* every index from 1 to count - 1.                                        *)
C12_MonitorIndexBounds ==
    probe.fn = "capture_specific_monitor" =>
        /\ (probe.index = 0 \/ probe.index >= probe.nmon) =>
               /\ probe.res = "raise" /\ probe.exc = "ValueError"
               /\ files = probe.before
        /\ (probe.index \in 1..(probe.nmon - 1) /\ probe.fault = "none") =>
               /\ probe.res = "path"
               /\ exists(files, file_path) /\ files[file_path] = probe.index

(* The index just past the last monitor was asked for and refused. *)
C12_Witness ==
    /\ probe.fn = "capture_specific_monitor"
    /\ probe.nmon > 1
    /\ probe.index = probe.nmon
    /\ probe.exc = "ValueError"

----------------------------------------------------------------------------
(* Properties of the routes.  resp is the answer to a request made after   *)
(* the last capture, so the files are those the handler saw.               *)

(* C13: with no file at file_path, GET /screenshot answers 404 with the    *)
(* JSON error "No screenshot available." and GET /metadata answers 404     *)
(* with a JSON error; neither answers 200 or 500.                          *)
C13_NoFileGives404 ==
    (resp.route \in {"/screenshot", "/metadata"} /\ ~exists(files, file_path)) =>
        /\ resp.status = 404
        /\ resp.body = "json" /\ resp.error # ""
        /\ resp.route = "/screenshot" => resp.error = "No screenshot available."

(* /metadata was asked with nothing in the output directory. *)
C13_Witness ==
    /\ resp.route = "/metadata"
    /\ resp.status = 404
    /\ OutputFiles(files) = {}

(* C14: GET /status answers 200 with status "running" in every state,      *)
(* whatever the scheduler, the files and the last capture are.             *)
C14_StatusAlwaysRunning ==
    resp.route = "/status" => (resp.status = 200 /\ resp.body = "running")

(* /status was asked of an idle window after a failed capture, with no     *)
(* file at file_path.                                                      *)
C14_Witness ==
    /\ resp.route = "/status"
    /\ ~capturing
    /\ ~exists(files, file_path)
    /\ Called /\ ~Succeeded(last.ret)

(* The read of the request met no interference. *)
Undisturbed == resp.status # 500 /\ (resp.status = 200 => resp.whole)

(* C15: after a successful capture_and_save, under either policy, a GET    *)
(* /screenshot with no capture in between serves the file at the path the  *)
(* capture returned.                                                       *)
C15_ServesLatestCapture ==
    (Called /\ Succeeded(last.ret) /\ resp.route = "/screenshot" /\ Undisturbed) =>
        /\ resp.status = 200
        /\ resp.path = last.ret.path
        /\ resp.content = files[last.ret.path]

C17_HandlersCatchAll ==
    resp.route \in {"/screenshot", "/metadata"} =>
        /\ resp.status \in {200, 404, 500}
        /\ resp.escaped = ""

(* src/app.py answered 500 to /metadata for a file it could not identify. *)
C17_Witness ==
    /\ impl = "app"
    /\ resp.route = "/metadata"
    /\ resp.status = 500
    /\ resp.error = "UnidentifiedImageError"

(* C21: POST /shutdown answers 200 with the message "Server shutting       *)
(* down..." and ends the HTTP server exactly when the server put its       *)
(* shutdown hook in the request; without the hook it answers 500, calls    *)
(* nothing and the server goes on serving.                                 *)
C21_ShutdownFollowsHook ==
    resp.route = "/shutdown" =>
        IF resp.hook
        THEN /\ resp.status = 200
             /\ resp.body = "Server shutting down..."
             /\ server = "stopped"
        ELSE /\ resp.status = 500
             /\ resp.error = "Not running with the Werkzeug Server"
             /\ server = "serving"

(* The hook was there: the request was answered 200 and the server ended   *)
(* while the capture timer of the window goes on.                          *)
C21_Witness ==
    /\ resp.route = "/shutdown"
    /\ resp.hook /\ resp.status = 200
    /\ server = "stopped"
    /\ ActiveTimers(timers) # {}

----------------------------------------------------------------------------
(* Properties of the settings. *)

(* C18: in every state in which a capture can be attempted the manager's   *)
(* custom_directory exists, after construction and after every             *)
(* apply_settings, one whose os.makedirs fails included.                   *)
C18_OutputDirectoryExists ==
    custom_directory \in dirs

(* C27: after construction and after every apply_settings, failed ones     *)
(* included, file_path is file_name in custom_directory.                   *)
C27_PathInDirectory ==
    file_path = join(custom_directory, file_name)

(* apply_settings failed in os.makedirs after it had moved the manager to  *)
(* the new directory, and a capture was attempted there.                   *)
C27_Witness ==
    /\ custom_directory = NewDir
    /\ NewDir \notin dirs
    /\ file_path.dir = NewDir
    /\ Called /\ last.caught = "IOError"

(* The manager's and the window's settings as apply_settings finds them. *)
Settings ==
    [address |-> address, reuse_same_image |-> reuse_same_image,
     custom_directory |-> custom_directory,
     file_name |-> file_name, file_path |-> file_path]

(* C28: an apply_settings that fails, by the port text or by os.makedirs,  *)
(* leaves host and port, the reuse flag, custom_directory and file_path as *)
(* they were, and no exception leaves the handler.                         *)
C28_FailedApplyChangesNothing ==
    [][\A host \in HostTexts, port_text \in PortTexts, reuse \in BOOLEAN,
          dir \in {ImagesDir, NewDir}, mkOk \in BOOLEAN :
           (/\ ApplySettings(host, port_text, reuse, dir, mkOk)
            /\ apply_settings(host, port_text, reuse, dir, mkOk,
                              Settings, dirs).exc # "") =>
               /\ UNCHANGED <<address, reuse_same_image, custom_directory,
                              file_path>>
               /\ process' = "running"]_vars

----------------------------------------------------------------------------
(* Properties of the file name. *)

(* C19: at every capture attempt of the scheduler the manager's file_name  *)
(* is the name derived from the mode being captured, and file_path is that *)
(* name in the output directory: a change of mode recomputes them.         *)
C19_FileNameFollowsMode ==
    [][fired' > fired =>
         /\ file_name = get_base_filename(impl, capture_mode)
         /\ file_path = join(custom_directory, file_name)]_vars

----------------------------------------------------------------------------
(* Properties of the reuse policy's files. *)

(* C20: under the reuse policy a successful capture_and_save that finds    *)
(* the canonical file in place leaves the output directory with as many    *)
(* files as it had before the call.                                        *)
C20_ReuseCreatesNoOtherFile ==
    (Called /\ last.reuse /\ Succeeded(last.ret)
       /\ exists(last.before, file_path)) =>
        Cardinality(OutputFiles(files)) = Cardinality(OutputFiles(last.before))

(* C22: in both implementations get_base_filename gives the mode's         *)
(* alphanumeric characters in their order, lower-cased, followed by        *)
(* ".png"; for "Full Screen" that is "fullscreen.png".                     *)
C22_BaseFilenameLowerCased ==
    /\ file_name = JoinChars(LowerAll(FilterAlnum(Chars(selected_mode)))) \o ".png"
    /\ selected_mode = "Full Screen" => file_name = "fullscreen.png"

(* C23: in src/app.py, under the reuse policy with a file at file_path,    *)
(* capture_and_save does not invoke the capture function, leaves every     *)
(* file as it was and returns (file_path, 0, 0, now); so no later call     *)
(* under that policy invokes the capture function once the file exists.    *)
C23_ReuseShortCircuits ==
    /\ (impl = "app" /\ Called /\ last.reuse /\ exists(last.before, file_path)) =>
           /\ ~last.invoked
           /\ files = last.before
           /\ last.ret = Outcome(file_path, 0, 0, now(last.at))
    /\ (impl = "app" /\ reuse_same_image) =>
           \A i, j \in 1..Len(log) :
               (i < j /\ Succeeded(log[i]) /\ log[i].path = file_path) =>
                   log[j].path = file_path /\ log[j].kind = "tuple"

(* The first call wrote the canonical file, the second call, a second      *)
(* later, found it and returned it untouched.                              *)
C23_Witness ==
    /\ impl = "app" /\ reuse_same_image
    /\ Len(log) = 2 /\ log[1].nbefore = 0
    /\ ~last.invoked
    /\ last.ret.path = file_path /\ last.at > 0
    /\ files[file_path] = 1

----------------------------------------------------------------------------
(* Properties of the entry points. *)

(* C24: in both entry points the HTTP server is started before the         *)
(* scheduler can fire, so that what the scheduler writes can be fetched:   *)
(* once the capture timer has fired the server thread is serving.          *)
C24_ServerStartedBeforeFiring ==
    fired > 0 => server = "serving"

----------------------------------------------------------------------------
(* Properties of the capture beside the server. *)

(* C25: the canonical file is written in place, so a GET /screenshot or    *)
(* GET /metadata handled while a capture has the file open finds the file  *)
(* (never 404) and, when it answers 200, answers from the part written so  *)
(* far.                                                                    *)
C25_ReaderSeesTruncatedFile ==
    (writing # 0 /\ resp.route \in {"/screenshot", "/metadata"}) =>
        /\ resp.status # 404
        /\ resp.status = 200 =>
               /\ resp.path = file_path
               /\ resp.content = Truncated(writing)
               /\ ~Complete(resp.content)

(* GET /screenshot answered 200 with a part of the image being written    *)
(* over a complete earlier one.                                            *)
C25_Witness ==
    /\ writing # 0
    /\ exists(last.before, file_path)
    /\ resp.route = "/screenshot" /\ resp.status = 200
    /\ resp.content = Truncated(writing)
    /\ ~resp.whole

----------------------------------------------------------------------------
(* Properties of the timestamped history of src/src. *)

(* The successful calls under the history policy, and the files they made: *)
(* those of the output directory that are neither the canonical file nor   *)
(* the capture function's own.                                             *)
History == {i \in 1..Len(log) : ~log[i].reuse /\ Succeeded(log[i])}
HistoryFiles ==
    OutputFiles(files) \ {file_path, join(custom_directory, StubName)}

(* C26: under the history policy of src/src two successful calls that      *)
(* persist in the same wall-clock second return the same path and the      *)
(* later overwrites the earlier: there are as many history files as        *)
(* seconds in which a successful capture was persisted.                    *)
C26_SameSecondSamePath ==
    impl = "src" =>
        /\ \A i, j \in History :
               Sec(log[i].end) = Sec(log[j].end) => log[i].path = log[j].path
        /\ \A i \in History :
               /\ exists(files, log[i].path)
               /\ files[log[i].path] =
                      CHOOSE j \in History :
                          /\ log[j].path = log[i].path
                          /\ \A k \in History :
                                 log[k].path = log[i].path => k <= j
        /\ HistoryFiles = {log[i].path : i \in History}
        /\ Cardinality(HistoryFiles) =
               Cardinality({Sec(log[i].end) : i \in History})

(* Two successful captures a tick apart in one second: one path, one       *)
(* history file, holding the second image.                                 *)
C26_Witness ==
    /\ impl = "src"
    /\ History = {1, 2}
    /\ log[1].end # log[2].end
    /\ log[1].path = log[2].path
    /\ Cardinality(HistoryFiles) = 1
    /\ files[log[2].path] = 2

----------------------------------------------------------------------------
(* More properties of the capture timer and of the timestamps. *)

(* C29: stop_capturing called while the scheduler is idle, before any      *)
(* start_capturing or a second time in a row, raises nothing, leaves       *)
(* capturing false and leaves no timer active.                             *)
C29_StopWhileIdleIsHarmless ==
    [][(StopCapturing /\ ~capturing) =>
           /\ stop_capturing(capture_timer, timers).exc = ""
           /\ process' = "running"
           /\ ~capturing'
           /\ ActiveTimers(timers') = {}]_vars

(* C30: under the history policy of src/src the timestamp of the returned  *)
(* outcome is the one in the returned file name, also when a second        *)
(* begins between the two readings of the clock.                           *)
C30_TimestampMatchesName ==
    (impl = "src" /\ Called /\ ~last.reuse /\ Succeeded(last.ret)) =>
        last.ret.path.name = Text(last.ret.timestamp) \o ".png"

====
